---- MODULE Spec2Model ----
(***************************************************************************)
(* Order intake (createServiceRequest), payment ledger (applyPayment) and  *)
(* the pre-created payment endpoint (createPayment) of the shoe-service    *)
(* backend, over the four ledger collections.                              *)
(*                                                                         *)
(* Amounts are integers in units of 0.01 (the smallest amount the Payment  *)
(* schema accepts).  A storage session is modelled by a pair of stores:    *)
(* c, what is committed, and s, what the session sees; a write made with   *)
(* {session} changes s only, commit publishes s, abort keeps c.            *)
(***************************************************************************)
EXTENDS Integers, Sequences, FiniteSets, Bags, TLC

VARIABLES customers, lineItems, transactions, payments, now, last, everFull,
          pending, ioInstance, emitted,
          connected, oplog, streams, activeStreams, timers, sent, faults, missed

\* pending: the request that has read the store and has not written yet
\* (phase "begun"), or that has just written (phase "finished")
\* ioInstance: a broadcaster is registered; emitted: what the last request
\* sent to the connected clients on its own
ledgerVars == <<customers, lineItems, transactions, payments, now, last, everFull,
                pending, ioInstance, emitted>>

\* the change notifier (initSocket): the connection to the datastore, the
\* number of mutations of each watched collection, the change streams and
\* their handlers, the map of the stream in charge of each collection, the
\* restart timers, what was broadcast, how many failures the environment has
\* caused, and the mutations made while the datastore was disconnected
notifierVars == <<connected, oplog, streams, activeStreams, timers, sent, faults,
                  missed>>

vars == <<ledgerVars, notifierVars>>

\* ------------------------------------------------------------------ bounds
MaxOps == 3
MaxItems == 2

\* ---------------------------------------------------------- absent values
Undefined == "undefined"   \* an absent string field (undefined / null / "")
NoNum == <<>>              \* an absent number; a present number n is <<n>>
NoId == <<>>               \* an absent identifier
NullDate == 0              \* date_out: null

\* ------------------------------------------------ enums of the controllers
PRIORITY_ENUM == {"Rush", "Normal"}
CURRENT_LOCATION_ENUM == {"Hub", "Branch"}
PAYMENT_STATUS_ENUM == {"NP", "PARTIAL", "PAID"}
PAYMENT_MODE_ENUM == {"Cash", "Bank", "GCash", "Other"}
VALID == {"NP", "PARTIAL", "PAID"}
PaymentModeSchemaEnum == {"Cash", "GCash", "Bank", "Other"}
PaymentAmountMin == 1

\* ------------------------------------ external collaborators (fixed data)
Branches == [b \in {"VAL-B-NCR"} |-> [branch_number |-> 1, branch_code |-> "VAL"]]
Services == {"SVC-1"}
yearMonth == "2025-03"

\* ------------------------------------------------------------------ store
Store == [customers |-> customers, lineItems |-> lineItems,
          transactions |-> transactions, payments |-> payments]

EmptyStore == [customers |-> <<>>, lineItems |-> <<>>,
               transactions |-> <<>>, payments |-> <<>>]

Min2(a, b) == IF a < b THEN a ELSE b

Put(f, k, v) == [x \in (DOMAIN f) \cup {k} |-> IF x = k THEN v ELSE f[x]]

Max(S) == CHOOSE x \in S : \A y \in S : y <= x

\* a session and its multi-document transaction (startSession,
\* startTransaction).  live is the committed store; snap is the committed store
\* as the request first read it, c what its reads outside the session see, s
\* what its reads in the session see (snap and its own writes); ok is FALSE
\* once an operation of the transaction has failed in the store.  For a
\* request that runs alone snap, c and live start out equal.
StartSessionAt(snapshot, st) ==
  [c |-> snapshot, s |-> snapshot, ok |-> TRUE, live |-> st, snap |-> snapshot]

StartSession(st) == StartSessionAt(st, st)

Throw(ctx) == [ctx EXCEPT !.ok = FALSE]

\* the document was committed or changed by another request after the
\* snapshot: the store refuses the write (DuplicateKey, WriteConflict)
Conflicts(ctx, coll, id) ==
  /\ id \in DOMAIN ctx.live[coll]
  /\ \/ id \notin DOMAIN ctx.snap[coll]
     \/ ctx.live[coll][id] # ctx.snap[coll][id]

\* document.save({ session }) of a new document: the unique index on the
\* identifier rejects a duplicate, and an injected storage failure throws; a
\* transaction in which an operation has failed accepts no further operation
InsertInSession(ctx, coll, id, doc, inject) ==
  IF ~ctx.ok \/ inject \/ id \in DOMAIN ctx.s[coll] \/ id \in DOMAIN ctx.c[coll]
     \/ Conflicts(ctx, coll, id)
  THEN Throw(ctx)
  ELSE [ctx EXCEPT !.s[coll] = Put(@, id, doc)]

\* document.save() without a session: committed at once
InsertNoSession(ctx, coll, id, doc, inject) ==
  IF inject \/ id \in DOMAIN ctx.s[coll] \/ id \in DOMAIN ctx.c[coll]
     \/ id \in DOMAIN ctx.live[coll]
  THEN Throw(ctx)
  ELSE [ctx EXCEPT !.s[coll] = Put(@, id, doc), !.c[coll] = Put(@, id, doc),
                   !.live[coll] = Put(@, id, doc)]

UpdateInSessionLastWins(ctx, coll, id, doc, inject) ==
  IF ~ctx.ok \/ inject THEN Throw(ctx) ELSE [ctx EXCEPT !.s[coll] = Put(@, id, doc)]

\* document.save({ session }) of a loaded document
UpdateInSession(ctx, coll, id, doc, inject) ==
  IF ~ctx.ok \/ inject \/ Conflicts(ctx, coll, id)
  THEN Throw(ctx)
  ELSE [ctx EXCEPT !.s[coll] = Put(@, id, doc)]

\* the documents of view that the request wrote, laid over the committed store
Merge(ctx, view) ==
  [coll \in DOMAIN ctx.live |->
     [id \in (DOMAIN ctx.live[coll]) \cup (DOMAIN view[coll]) |->
        IF id \in DOMAIN view[coll]
           /\ (id \notin DOMAIN ctx.snap[coll] \/ view[coll][id] # ctx.snap[coll][id])
        THEN view[coll][id] ELSE ctx.live[coll][id]]]

\* commitTransaction publishes the writes of the session; abortTransaction
\* drops them
Commit(ctx) == Merge(ctx, ctx.s)
Abort(ctx) == ctx.live

\* what a request leaves behind: its HTTP status, the committed store, and
\* whether it logged "Failed to create/attach payment record"
NoEmit == <<>>

\* session: what the request has done with its storage session when it
\* answers ("none": it started none)
Resp(code, st) == [status |-> code, store |-> st, paymentError |-> FALSE, emit |-> NoEmit,
                   session |-> "none"]

\* the answer that follows session.endSession()
Ended(code, st) == [Resp(code, st) EXCEPT !.session = "ended"]

\* the answer of a request that returns with its session started
Unended(code, st) == [Resp(code, st) EXCEPT !.session = "started"]

Max2(a, b) == IF a > b THEN a ELSE b

\* the payload of the immediate event of applyPayment
lineItemRowUpdate(lineItem, transaction_id, transaction) ==
  [event |-> "lineItemRowUpdate", lineItem |-> lineItem,
   transaction_id |-> transaction_id,
   remaining_balance |-> Max2(transaction.total_amount - transaction.amount_paid, 0),
   isPickedUp |-> TRUE, source |-> "applyPayment"]

\* safeEmit: nothing without a registered broadcaster, nothing when emit throws
safeEmit(io, payload, throws) ==
  IF payload = NoEmit \/ ~io \/ throws THEN <<>> ELSE <<payload>>

\* ----------------------------------------------------------- identifiers
\* customer  <<"CUST", branch_number, n>>      CUST-<branch_number>-<n>
\* transaction <<yearMonth, seq, branch_code>> <YYYY-MM>-<seq, 5 digits>-<code>
\* line item <<yearMonth, seq, item, branch_code>>
\* payment   <<"PAY", n, branch_code>>         PAY-<n>-<branch_code>

RECURSIVE DecDigits(_)
DecDigits(n) == IF n < 10 THEN <<n>> ELSE Append(DecDigits(n \div 10), n % 10)

RECURSIVE LexLess(_, _)
LexLess(a, b) ==
  IF a = <<>> THEN b # <<>>
  ELSE IF b = <<>> THEN FALSE
  ELSE IF Head(a) # Head(b) THEN Head(a) < Head(b)
  ELSE LexLess(Tail(a), Tail(b))

\* sort({ cust_id: -1 }).limit(1): the greatest cust_id as a string
generateCustomerId(st, branch_number) ==
  LET nums == {id[3] : id \in {i \in DOMAIN st.customers : i[2] = branch_number}}
      lastNumber == IF nums = {} THEN 0
                    ELSE CHOOSE n \in nums :
                           \A m \in nums : m = n \/ LexLess(DecDigits(m), DecDigits(n))
  IN <<"CUST", branch_number, lastNumber + 1>>

SeqDigits == 5

\* the regex accepts exactly 5 digits; padded to 5, string order is numeric
generateTransactionId(st, branch_code) ==
  LET nums == {id[2] : id \in {i \in DOMAIN st.transactions :
                 i[1] = yearMonth /\ i[3] = branch_code /\ Len(DecDigits(i[2])) <= SeqDigits}}
      lastNumber == IF nums = {} THEN 0 ELSE Max(nums)
  IN <<yearMonth, lastNumber + 1, branch_code>>

generateLineItemId(transactionId, lineIndex) ==
  <<transactionId[1], transactionId[2], lineIndex + 1, transactionId[3]>>

ScanLimit == 100

\* the scan, were it to take the payments of every branch code
generatePaymentIdUnscoped(st, branch_code) ==
  LET mine == DOMAIN st.payments
      latest == {id \in mine :
                   Cardinality({o \in mine : st.payments[o].ord > st.payments[id].ord}) < ScanLimit}
      nums == {id[2] : id \in latest}
      maxNum == IF nums = {} THEN 0 ELSE Max(nums \cup {0})
  IN <<"PAY", maxNum + 1, branch_code>>

\* the newest ScanLimit payments of the branch code, by insertion order
generatePaymentId(st, branch_code) ==
  LET mine == {id \in DOMAIN st.payments : id[3] = branch_code}
      latest == {id \in mine :
                   Cardinality({o \in mine : st.payments[o].ord > st.payments[id].ord}) < ScanLimit}
      nums == {id[2] : id \in latest}
      maxNum == IF nums = {} THEN 0 ELSE Max(nums \cup {0})
  IN <<"PAY", maxNum + 1, branch_code>>

NextOrd(st) == Cardinality(DOMAIN st.payments) + 1

\* -------------------------------------------------------- order intake
validateServiceRequestInput(data) ==
  LET itemErrors(item) ==
        (IF item.priority \notin PRIORITY_ENUM THEN {"priority"} ELSE {})
        \cup (IF item.shoes = Undefined THEN {"shoes"} ELSE {})
        \cup (IF item.services = <<>> THEN {"services"}
              ELSE UNION {(IF item.services[k].service_id = Undefined
                           THEN {"service_id"} ELSE {})
                          \cup (IF item.services[k].quantity < 1
                                THEN {"quantity"} ELSE {})
                          : k \in DOMAIN item.services})
        \cup (IF item.current_location # Undefined
                 /\ item.current_location \notin CURRENT_LOCATION_ENUM
              THEN {"current_location"} ELSE {})
  IN (IF data.cust_name = Undefined THEN {"cust_name"} ELSE {})
     \cup (IF data.branch_id = Undefined THEN {"branch_id"} ELSE {})
     \cup (IF data.received_by = Undefined THEN {"received_by"} ELSE {})
     \cup (IF data.total_amount = NoNum THEN {"total_amount"} ELSE {})
     \cup (IF data.discount_amount = NoNum THEN {"discount_amount"} ELSE {})
     \cup (IF data.amount_paid = NoNum THEN {"amount_paid"} ELSE {})
     \cup (IF data.payment_status \notin PAYMENT_STATUS_ENUM THEN {"payment_status"} ELSE {})
     \cup (IF data.payment_mode \notin PAYMENT_MODE_ENUM THEN {"payment_mode"} ELSE {})
     \cup (IF data.lineItems = <<>> THEN {"lineItems"}
           ELSE UNION {itemErrors(data.lineItems[i]) : i \in DOMAIN data.lineItems})

invalidIdsUnchecked(data) == {}

\* service ids of the request that the catalog does not know
invalidIds(data) ==
  (UNION {{data.lineItems[i].services[k].service_id :
              k \in DOMAIN data.lineItems[i].services} : i \in DOMAIN data.lineItems})
  \ Services

\* Customer.findOne({cust_name, cust_bdate}).session(session)
FindCustomer(ctx, cust_name) ==
  {id \in DOMAIN ctx.s.customers : ctx.s.customers[id].cust_name = cust_name}

SaveCustomerNoSession(ctx, id, doc, inject) == InsertNoSession(ctx, "customers", id, doc, inject)

SaveCustomer(ctx, id, doc, inject) == InsertInSession(ctx, "customers", id, doc, inject)

SaveLineItem(ctx, id, doc, inject) == InsertInSession(ctx, "lineItems", id, doc, inject)

SaveOrderPayment(ctx, id, doc, inject) == InsertInSession(ctx, "payments", id, doc, inject)

SaveTransaction(ctx, id, doc, inject) == InsertInSession(ctx, "transactions", id, doc, inject)

\* the customer of the order: found, or created with zero totals
ResolveCustomer(ctx, data, branch_number, fail) ==
  LET found == FindCustomer(ctx, data.cust_name) IN
  IF found # {} THEN [ctx |-> ctx, cust_id |-> CHOOSE id \in found : TRUE]
  ELSE LET cust_id == generateCustomerId(ctx.c, branch_number)
       IN [ctx |-> SaveCustomer(ctx, cust_id,
                      [cust_name |-> data.cust_name, total_services |-> 0,
                       total_expenditure |-> 0], fail.at = "customer"),
           cust_id |-> cust_id]

\* the loop over data.lineItems, from index i (1-based here, i - 1 in the code)
RECURSIVE CreateLineItems(_, _, _, _, _, _, _)
CreateLineItems(ctx, data, cust_id, transactionId, i, fail, t) ==
  IF ~ctx.ok \/ i > Len(data.lineItems) THEN ctx
  ELSE LET item == data.lineItems[i]
           lineItemId == generateLineItemId(transactionId, i - 1)
           newLineItem == [transaction_id |-> transactionId,
                           priority |-> item.priority,
                           cust_id |-> cust_id,
                           services |-> item.services,
                           branch_id |-> data.branch_id,
                           current_location |-> IF item.current_location = Undefined
                                                THEN "Branch" ELSE item.current_location,
                           current_status |-> "Queued",
                           storage_fee |-> 0,
                           latest_update |-> t]
       IN CreateLineItems(
            SaveLineItem(ctx, lineItemId, newLineItem, fail.at = "lineItem" /\ fail.idx = i),
            data, cust_id, transactionId, i + 1, fail, t)

OrZero(n) == IF n = NoNum THEN 0 ELSE n[1]

createServiceRequest(ctx0, data, fail, t) ==
  IF validateServiceRequestInput(data) # {} THEN Ended(400, Abort(ctx0))
  ELSE IF data.branch_id \notin DOMAIN Branches THEN Ended(400, Abort(ctx0))
  ELSE IF invalidIds(data) # {} THEN Ended(400, Abort(ctx0))
  ELSE
    LET branch == Branches[data.branch_id]
        rc == ResolveCustomer(ctx0, data, branch.branch_number, fail)
        ctx1 == rc.ctx
        transactionId == generateTransactionId(ctx1.c, branch.branch_code)
        ctx2 == CreateLineItems(ctx1, data, rc.cust_id, transactionId, 1, fail, t)
        noPairs == Len(data.lineItems)
        paid == data.amount_paid[1]
        hasPayment == paid > 0
        paymentId == generatePaymentId(ctx2.c, branch.branch_code)
        payment == [transaction_id |-> transactionId, payment_amount |-> paid,
                    payment_mode |-> data.payment_mode, ord |-> NextOrd(ctx2.s)]
        ctx3 == IF ctx2.ok /\ hasPayment
                THEN SaveOrderPayment(ctx2, paymentId, payment,
                        fail.at = "payment" \/ paid < PaymentAmountMin)
                ELSE ctx2
        transaction == [line_item_id |-> [i \in 1..noPairs |->
                                             generateLineItemId(transactionId, i - 1)],
                        cust_id |-> rc.cust_id,
                        branch_id |-> data.branch_id,
                        no_pairs |-> noPairs,
                        no_released |-> OrZero(data.no_released),
                        total_amount |-> data.total_amount[1],
                        amount_paid |-> paid,
                        payment_status |-> data.payment_status,
                        payments |-> IF hasPayment THEN <<paymentId>> ELSE <<>>,
                        payment_mode |-> <<data.payment_mode>>,
                        date_out |-> NullDate]
        ctx4 == IF ctx3.ok
                THEN SaveTransaction(ctx3, transactionId, transaction, fail.at = "transaction")
                ELSE ctx3
        ctx5 == IF ctx4.ok /\ fail.at = "commit" THEN Throw(ctx4) ELSE ctx4
    IN IF ctx5.ok THEN Ended(201, Commit(ctx5)) ELSE Ended(500, Abort(ctx5))

\* ------------------------------------------------------- payment ledger
UnclampedPaid(prevPaid, dueNum, totalAmt) == prevPaid + dueNum

ClampPaid(prevPaid, dueNum, totalAmt) ==
  LET newPaid == prevPaid + dueNum
  IN IF newPaid > totalAmt THEN totalAmt ELSE newPaid

InSeq(x, q) == \E k \in DOMAIN q : q[k] = x

\* payment_mode is a comma-joined string, kept here as the list of its parts
AppendMode(existing, modeOfPayment) ==
  IF modeOfPayment = Undefined THEN existing
  ELSE IF existing = <<>> THEN <<modeOfPayment>>
  ELSE IF ~InSeq(modeOfPayment, existing) THEN Append(existing, modeOfPayment)
  ELSE existing

PushUnique(q, x) == IF InSeq(x, q) THEN q ELSE Append(q, x)

SavePaymentNoSession(ctx, id, doc, inject) == InsertNoSession(ctx, "payments", id, doc, inject)

SavePayment(ctx, id, doc, inject) == InsertInSession(ctx, "payments", id, doc, inject)

\* the inner try block, were the transaction to go on after a refused save
CreateLedgerPaymentGoesOn(ctx, tx, transaction_id, dueNum, body, fail) ==
  IF dueNum > 0
  THEN LET paymentId == generatePaymentId(ctx.c, Branches[tx.branch_id].branch_code)
           mode == IF body.modeOfPayment = Undefined THEN "Other" ELSE body.modeOfPayment
           payment == [transaction_id |-> transaction_id, payment_amount |-> dueNum,
                       payment_mode |-> mode, ord |-> NextOrd(ctx.s)]
           saved == InsertInSession(ctx, "payments", paymentId, payment,
                       fail = "payment" \/ mode \notin PaymentModeSchemaEnum
                       \/ dueNum < PaymentAmountMin)
       IN IF saved.ok
          THEN [ctx |-> saved, failed |-> FALSE,
                tx |-> [tx EXCEPT !.payments = PushUnique(@, paymentId)]]
          ELSE [ctx |-> ctx, failed |-> TRUE, tx |-> tx]
  ELSE [ctx |-> ctx, failed |-> FALSE, tx |-> tx]

\* the else branch of the inner try block: a Payment record for dueNow,
\* allocated in the branch code of the transaction and saved in the session.
\* A record the schema refuses never reaches the store and leaves the session
\* as it was; a save the store refuses is caught as well, but it has ended
\* the transaction in the store
CreateLedgerPayment(ctx, tx, transaction_id, dueNum, body, fail) ==
  IF dueNum > 0
  THEN LET branchCode == IF tx.branch_id \in DOMAIN Branches
                         THEN Branches[tx.branch_id].branch_code ELSE tx.branch_id
           paymentId == generatePaymentId(ctx.c, branchCode)
           mode == IF body.modeOfPayment = Undefined THEN "Other" ELSE body.modeOfPayment
           payment == [transaction_id |-> transaction_id, payment_amount |-> dueNum,
                       payment_mode |-> mode, ord |-> NextOrd(ctx.s)]
           invalid == mode \notin PaymentModeSchemaEnum \/ dueNum < PaymentAmountMin
           saved == SavePayment(ctx, paymentId, payment, fail = "payment")
       IN IF invalid THEN [ctx |-> ctx, failed |-> TRUE, tx |-> tx]
          ELSE IF saved.ok
          THEN [ctx |-> saved, failed |-> FALSE,
                tx |-> [tx EXCEPT !.payments = PushUnique(@, paymentId)]]
          ELSE [ctx |-> saved, failed |-> TRUE, tx |-> tx]
  ELSE [ctx |-> ctx, failed |-> FALSE, tx |-> tx]

AttachPaymentUnchecked(ctx, tx, transaction_id, dueNum, body, fail) ==
  IF body.provided_payment_id # NoId
  THEN [ctx |-> ctx, failed |-> FALSE,
        tx |-> [tx EXCEPT !.payments = PushUnique(@, body.provided_payment_id)]]
  ELSE CreateLedgerPayment(ctx, tx, transaction_id, dueNum, body, fail)

\* the inner try block: attach the provided payment if it exists, or create one
\* for dueNow; whatever it throws is logged and the request goes on
AttachPayment(ctx, tx, transaction_id, dueNum, body, fail) ==
  IF body.provided_payment_id # NoId
  THEN [ctx |-> ctx, failed |-> FALSE,
        tx |-> IF body.provided_payment_id \in DOMAIN ctx.s.payments
               THEN [tx EXCEPT !.payments = PushUnique(@, body.provided_payment_id)]
               ELSE tx]
  ELSE CreateLedgerPayment(ctx, tx, transaction_id, dueNum, body, fail)

\* step 2 and 3: the released line item and the totals of its customer
ReleaseLineItemProrated(ctx, tx, body, fail) ==
  LET li == ctx.s.lineItems[body.lineItemId]
      ctx1 == UpdateInSession(ctx, "lineItems", body.lineItemId,
                 [li EXCEPT !.current_status = "Picked Up"], fail = "lineItem")
  IN IF ~ctx1.ok \/ tx.cust_id \notin DOMAIN ctx1.s.customers THEN ctx1
     ELSE LET customer == ctx1.s.customers[tx.cust_id]
          IN UpdateInSession(ctx1, "customers", tx.cust_id,
               [customer EXCEPT !.total_services = @ + 1,
                                !.total_expenditure = @ + (tx.total_amount \div tx.no_pairs)],
               fail = "customer")

ReleaseLineItem(ctx, tx, body, fail) ==
  LET li == ctx.s.lineItems[body.lineItemId]
      ctx1 == UpdateInSession(ctx, "lineItems", body.lineItemId,
                 [li EXCEPT !.current_status = "Picked Up"], fail = "lineItem")
  IN IF ~ctx1.ok \/ tx.cust_id \notin DOMAIN ctx1.s.customers THEN ctx1
     ELSE LET customer == ctx1.s.customers[tx.cust_id]
          IN UpdateInSession(ctx1, "customers", tx.cust_id,
               [customer EXCEPT !.total_services = @ + 1,
                                !.total_expenditure = @ + tx.total_amount],
               fail = "customer")

CommitAndEmitAnyway(ctx, paymentError, updatedLineItemForEmit) ==
  [(IF ctx.ok THEN Ended(200, Commit(ctx)) ELSE Ended(500, Abort(ctx)))
     EXCEPT !.paymentError = paymentError, !.emit = updatedLineItemForEmit]

\* the end of applyPayment: the commit, then the event and the 200 response;
\* a throw before the event goes to the catch that aborts
CommitAndEmit(ctx, paymentError, updatedLineItemForEmit) ==
  IF ctx.ok
  THEN [Ended(200, Commit(ctx)) EXCEPT !.paymentError = paymentError,
                                      !.emit = updatedLineItemForEmit]
  ELSE [Ended(500, Abort(ctx)) EXCEPT !.paymentError = paymentError]

applyPayment(ctx0, transaction_id, body, fail, t) ==
  IF body.dueNow = NoNum \/ body.customerPaid = NoNum THEN Unended(400, ctx0.live)
  ELSE IF transaction_id \notin DOMAIN ctx0.s.transactions THEN Ended(404, Abort(ctx0))
  ELSE
    LET transaction == ctx0.s.transactions[transaction_id]
        dueNum == body.dueNow[1]
        tx1 == IF body.markPickedUp
               THEN [transaction EXCEPT !.no_released = @ + 1] ELSE transaction
        tx2 == [tx1 EXCEPT !.amount_paid =
                  ClampPaid(transaction.amount_paid, dueNum, transaction.total_amount)]
    IN
    IF body.payment_status # Undefined /\ body.payment_status \notin VALID
    THEN Ended(400, Abort(ctx0))
    ELSE
      LET tx3 == IF body.payment_status # Undefined
                 THEN [tx2 EXCEPT !.payment_status = body.payment_status] ELSE tx2
          tx4 == [tx3 EXCEPT !.payment_mode = AppendMode(@, body.modeOfPayment)]
          ap == AttachPayment(ctx0, tx4, transaction_id, dueNum, body, fail)
          tx5 == IF body.markPickedUp /\ ap.tx.no_pairs - ap.tx.no_released <= 0
                 THEN [ap.tx EXCEPT !.date_out = t] ELSE ap.tx
          ctx1 == UpdateInSession(ap.ctx, "transactions", transaction_id, tx5,
                                  fail = "transaction")
      IN
      IF ~ctx1.ok THEN [Ended(500, Abort(ctx1)) EXCEPT !.paymentError = ap.failed]
      ELSE IF body.markPickedUp /\ body.lineItemId # NoId
              /\ body.lineItemId \notin DOMAIN ctx1.s.lineItems
      THEN [Ended(404, Abort(ctx1)) EXCEPT !.paymentError = ap.failed]
      ELSE
        LET ctx2 == IF body.markPickedUp /\ body.lineItemId # NoId
                    THEN ReleaseLineItem(ctx1, tx5, body, fail) ELSE ctx1
            ctx3 == IF ctx2.ok /\ fail = "commit" THEN Throw(ctx2) ELSE ctx2
            updatedLineItemForEmit ==
              IF body.markPickedUp /\ body.lineItemId # NoId
              THEN lineItemRowUpdate(ctx2.s.lineItems[body.lineItemId], transaction_id, tx5)
              ELSE NoEmit
        IN CommitAndEmit(ctx3, ap.failed, updatedLineItemForEmit)

\* ------------------------------------------- pre-created payment record
createPayment(st, transaction_id, payment_amount, payment_mode, branch_id) ==
  IF transaction_id = NoId THEN Resp(400, st)
  ELSE IF payment_amount = NoNum \/ payment_amount[1] <= 0 THEN Resp(400, st)
  ELSE
    LET branchCode == IF branch_id \in DOMAIN Branches
                      THEN Branches[branch_id].branch_code ELSE ""
        paymentId == generatePaymentId(st, branchCode)
        mode == IF payment_mode = Undefined THEN "Other" ELSE payment_mode
        payment == [transaction_id |-> transaction_id,
                    payment_amount |-> payment_amount[1],
                    payment_mode |-> mode, ord |-> NextOrd(st)]
        invalid == mode \notin PaymentModeSchemaEnum
                   \/ payment_amount[1] < PaymentAmountMin
        ctx == InsertNoSession(StartSession(st), "payments", paymentId, payment, invalid)
    IN IF ctx.ok THEN Resp(201, ctx.live) ELSE Resp(500, ctx.live)

\* ------------------------------------------------------ request inputs
Names == {"Ana", "Ben"}
BranchIds == DOMAIN Branches
MissingBranch == "XXX-B-NCR"
MissingTransaction == <<yearMonth, 77, "VAL">>
MissingLineItem == <<yearMonth, 77, 1, "VAL">>
MissingPayment == <<"PAY", 77, "VAL">>
TotalAmounts == {2}
PaidAmounts == {0, 1, 3}
DueAmounts == {-1, 0, 1, 3}

GoodItem == [priority |-> "Rush", shoes |-> "Nike",
             services |-> <<[service_id |-> "SVC-1", quantity |-> 1]>>,
             current_location |-> Undefined]
HubItem == [GoodItem EXCEPT !.priority = "Normal", !.current_location = "Hub"]
BadItems == {[GoodItem EXCEPT !.priority = "Urgent"],
             [GoodItem EXCEPT !.services = <<>>],
             [GoodItem EXCEPT !.services = <<[service_id |-> "SVC-9", quantity |-> 1]>>],
             [GoodItem EXCEPT !.current_location = "Mars"]}

ValidItemLists == {[i \in 1..n |-> IF i = 1 THEN GoodItem ELSE HubItem] : n \in 1..MaxItems}
InvalidItemLists == {<<>>} \cup {<<GoodItem, b>> : b \in BadItems}

BaseOrder == [cust_name |-> "Ana", branch_id |-> "VAL-B-NCR", received_by |-> "staff",
              total_amount |-> <<2>>, discount_amount |-> <<0>>, amount_paid |-> <<1>>,
              payment_status |-> "PARTIAL", payment_mode |-> "Cash",
              no_released |-> NoNum, lineItems |-> <<GoodItem>>]

\* the orders tried: every customer, initial payment and number of items; the
\* caller-supplied no_released on its own; and one invalid field at a time
ValidOrders ==
  {[BaseOrder EXCEPT !.cust_name = n, !.amount_paid = <<a>>, !.lineItems = l] :
     n \in Names, a \in PaidAmounts, l \in ValidItemLists}

\* an order whose caller sends no_released
ReleasedOrders == {[BaseOrder EXCEPT !.no_released = <<1>>]}

InvalidOrders ==
  {[BaseOrder EXCEPT !.payment_status = "BOGUS"],
   [BaseOrder EXCEPT !.payment_mode = "Crypto"],
   [BaseOrder EXCEPT !.branch_id = MissingBranch]}
  \cup {[BaseOrder EXCEPT !.lineItems = l] : l \in InvalidItemLists}

OrderInputs == ValidOrders \cup InvalidOrders

NoFail == [at |-> "none", idx |-> 0]
OrderFails == {[at |-> a, idx |-> 0] : a \in {"none", "customer", "payment", "transaction", "commit"}}
              \cup {[at |-> "lineItem", idx |-> i] : i \in 1..MaxItems}

ApplyFails == {"none", "payment", "transaction", "lineItem", "customer", "commit"}

PlainBody == [dueNow |-> <<1>>, customerPaid |-> <<1>>, modeOfPayment |-> "Cash",
              lineItemId |-> NoId, markPickedUp |-> FALSE,
              payment_status |-> Undefined, provided_payment_id |-> NoId]

\* the ways of releasing: without a line item id, with each stored line item
\* (of this or of another transaction), with an id that does not exist
Releases ==
  {[PlainBody EXCEPT !.markPickedUp = TRUE, !.lineItemId = li, !.dueNow = <<d>>] :
     li \in {NoId, MissingLineItem} \cup DOMAIN lineItems, d \in {0, 1}}

\* the bodies tried against the current store
ApplyBodies ==
  {[PlainBody EXCEPT !.dueNow = <<d>>] : d \in DueAmounts}
  \cup Releases
  \cup {[PlainBody EXCEPT !.modeOfPayment = m] : m \in {Undefined, "GCash", "Bitcoin"}}
  \cup {[PlainBody EXCEPT !.payment_status = ps] : ps \in {"PAID", "BOGUS"}}
  \cup {[PlainBody EXCEPT !.provided_payment_id = pp] :
          pp \in DOMAIN payments \cup {MissingPayment}}
  \cup {[PlainBody EXCEPT !.dueNow = NoNum], [PlainBody EXCEPT !.customerPaid = NoNum]}

\* the bodies a storage failure is injected into: a plain payment, and the
\* release of a line item of the paid transaction
FailingBodies(transaction_id) ==
  {PlainBody} \cup {b \in Releases : /\ b.dueNow = <<1>>
                                     /\ b.lineItemId \in DOMAIN lineItems
                                     /\ lineItems[b.lineItemId].transaction_id = transaction_id}

FailingOrders == {d \in ValidOrders : d.cust_name = "Ana" /\ d.amount_paid = <<1>>}

\* ------------------------------------------------- the change notifier
MaxMutations == 2
MaxFaults == 2
MaxDisconnects == 1
MaxFailures == 6

WATCH_TARGETS ==
  [line_items |-> "lineItemUpdated", appointments |-> "appointmentUpdated",
   unavailabilities |-> "unavailabilityUpdated"]

Targets == DOMAIN WATCH_TARGETS

NoToken == <<>>            \* no resume token; the token of position p is <<p>>
BackoffFloor == 1000
BackoffCap == 30000

Remove(f, k) == [x \in (DOMAIN f) \ {k} |-> f[x]]

\* the parts of the notifier that watchTarget and scheduleRestart change
Notifier == [streams |-> streams, activeStreams |-> activeStreams, timers |-> timers]

FreshStream(n) ==
  CHOOSE k \in 1..(Cardinality(DOMAIN n.streams) + 1) : k \notin DOMAIN n.streams

\* watchTarget(target, resumeToken, retryDelay): a stream that delivers the
\* mutations after resumeToken, or the ones made from now on; when watch
\* throws, a timer that tries again with twice the delay, at most the cap
watchTarget(n, target, resumeToken, retryDelay, throws) ==
  IF throws
  THEN LET nextDelay == Min2(retryDelay * 2, BackoffCap)
       IN [n EXCEPT !.timers = @ (+) SetToBag({[target |-> target, token |-> resumeToken,
                                                delay |-> nextDelay]})]
  ELSE LET stream == FreshStream(n)
       IN [n EXCEPT !.streams = Put(@, stream,
                        [target |-> target,
                         cursor |-> IF resumeToken = NoToken THEN oplog[target]
                                    ELSE resumeToken[1],
                         currentToken |-> resumeToken,
                         backoffDelay |-> retryDelay,
                         open |-> TRUE, closeEvent |-> FALSE]),
                    !.activeStreams = Put(@, target, stream)]

InCharge(n, stream) ==
  /\ n.streams[stream].target \in DOMAIN n.activeStreams
  /\ n.activeStreams[n.streams[stream].target] = stream

\* stream.close(): the stream delivers nothing more and raises 'close' once
CloseStream(n, stream) ==
  IF n.streams[stream].open
  THEN [n EXCEPT !.streams[stream].open = FALSE, !.streams[stream].closeEvent = TRUE]
  ELSE n

scheduleRestartNoTimer(n, stream) ==
  IF ~InCharge(n, stream) THEN n
  ELSE CloseStream([n EXCEPT !.activeStreams = Remove(@, n.streams[stream].target)], stream)

scheduleRestartUncapped(n, stream) ==
  IF ~InCharge(n, stream) THEN n
  ELSE LET st == n.streams[stream]
           closed == CloseStream([n EXCEPT !.activeStreams = Remove(@, st.target)], stream)
       IN [closed EXCEPT !.timers = @ (+) SetToBag({[target |-> st.target,
                                                    token |-> st.currentToken,
                                                    delay |-> st.backoffDelay * 2]})]

\* scheduleRestart, were it to go on for a stream that is not in the map
scheduleRestartUnguarded(n, stream) ==
  LET st == n.streams[stream]
      nextDelay == Min2(st.backoffDelay * 2, BackoffCap)
      closed == CloseStream([n EXCEPT !.activeStreams = Remove(@, st.target)], stream)
  IN [closed EXCEPT !.timers = @ (+) SetToBag({[target |-> st.target,
                                               token |-> st.currentToken,
                                               delay |-> nextDelay]})]

\* scheduleRestart of the handlers of one stream
scheduleRestart(n, stream) ==
  IF ~InCharge(n, stream) THEN n
  ELSE LET st == n.streams[stream]
           nextDelay == Min2(st.backoffDelay * 2, BackoffCap)
           closed == CloseStream([n EXCEPT !.activeStreams = Remove(@, st.target)], stream)
       IN [closed EXCEPT !.timers = @ (+) SetToBag({[target |-> st.target,
                                                    token |-> st.currentToken,
                                                    delay |-> nextDelay]})]

\* openAllStreams, over the targets still to open; throws is the set of
\* targets whose watch throws
RECURSIVE openAllStreams(_, _, _)
openAllStreams(n, todo, throws) ==
  IF todo = {} THEN n
  ELSE LET target == CHOOSE t \in todo : TRUE
           closed == IF target \in DOMAIN n.activeStreams
                     THEN CloseStream(n, n.activeStreams[target]) ELSE n
           deleted == [closed EXCEPT !.activeStreams = Remove(@, target)]
       IN openAllStreams(watchTarget(deleted, target, NoToken, BackoffFloor,
                                     target \in throws),
                         todo \ {target}, throws)

\* a stream that is closed and has raised all its events is gone
Sweep(n) ==
  [n EXCEPT !.streams =
     [k \in {x \in DOMAIN n.streams : n.streams[x].open \/ n.streams[x].closeEvent}
        |-> n.streams[k]]]

\* ------------------------------------------------------------- actions
Init ==
  /\ customers = <<>>
  /\ lineItems = <<>>
  /\ transactions = <<>>
  /\ payments = <<>>
  /\ now = 1
  /\ last = [op |-> "init", status |-> 0, paymentError |-> FALSE, arg |-> <<>>, fail |-> "none",
            session |-> "none"]
  /\ everFull = {}
  /\ pending = <<>>
  /\ ioInstance = FALSE
  /\ emitted = <<>>
  /\ connected = TRUE
  /\ oplog = [t \in Targets |-> 0]
  /\ LET n == openAllStreams([streams |-> <<>>, activeStreams |-> <<>>,
                              timers |-> EmptyBag], Targets, {})
     IN streams = n.streams /\ activeStreams = n.activeStreams /\ timers = n.timers
  /\ sent = [t \in Targets |-> [before |-> {}, all |-> {}]]
  /\ faults = [stream |-> 0, db |-> 0]
  /\ missed = [t \in Targets |-> {}]

Begun == pending # <<>> /\ pending.phase = "begun"
Finished == pending # <<>> /\ pending.phase = "finished"

\* a request that runs to its end in one step leaves a begun request pending
Settle == pending' = IF Begun THEN pending ELSE <<>>

Full(trs) == {id \in DOMAIN trs : trs[id].no_released = trs[id].no_pairs}

Install(r, op, arg, failAt) ==
  /\ customers' = r.store.customers
  /\ lineItems' = r.store.lineItems
  /\ transactions' = r.store.transactions
  /\ payments' = r.store.payments
  /\ now' = now + 1
  /\ last' = [op |-> op, status |-> r.status, paymentError |-> r.paymentError,
              arg |-> arg, fail |-> failAt, session |-> r.session]
  /\ everFull' = everFull \cup Full(r.store.transactions)
  /\ emitted' = safeEmit(ioInstance, r.emit, r.emit # NoEmit /\ failAt = "emit")
  /\ UNCHANGED ioInstance
  /\ UNCHANGED notifierVars

CreateOrder(data, fail) ==
  /\ now <= MaxOps
  /\ Install(createServiceRequest(StartSession(Store), data, fail, now),
             "createOrder", data, fail.at)
  /\ Settle

ApplyPayment(transaction_id, body, fail) ==
  /\ now <= MaxOps
  /\ Install(applyPayment(StartSession(Store), transaction_id, body, fail, now), "applyPayment",
             [transaction_id |-> transaction_id, body |-> body], fail)
  /\ Settle

CreatePayment(transaction_id, payment_amount, payment_mode, branch_id) ==
  /\ now <= MaxOps
  /\ Install(createPayment(Store, transaction_id, payment_amount, payment_mode, branch_id),
             "createPayment", <<transaction_id, payment_amount>>, "none")
  /\ Settle

\* requests of the order-and-payment flow; the second customer name is used
\* once the first is on file
OrderRequest ==
  /\ now <= MaxOps
  /\ \E data \in OrderInputs :
        /\ data.cust_name = "Ben" => customers # <<>>
        /\ CreateOrder(data, NoFail)

FailingOrderRequest ==
  /\ now <= MaxOps
  /\ \E data \in FailingOrders, fail \in OrderFails \ {NoFail} :
        /\ fail.idx <= Len(data.lineItems)
        /\ CreateOrder(data, fail)

PaymentRequest ==
  /\ now <= MaxOps
  /\ \/ \E transaction_id \in DOMAIN transactions, body \in ApplyBodies :
           ApplyPayment(transaction_id, body, "none")
     \/ ApplyPayment(MissingTransaction, PlainBody, "none")

FailingPaymentRequest ==
  /\ now <= MaxOps
  /\ \E transaction_id \in DOMAIN transactions :
      \E body \in FailingBodies(transaction_id), fail \in ApplyFails \ {"none"} :
        /\ fail \in {"lineItem", "customer"} => body.markPickedUp
        /\ ApplyPayment(transaction_id, body, fail)

ReleasedOrderRequest ==
  /\ now <= MaxOps
  /\ \E data \in ReleasedOrders : CreateOrder(data, NoFail)

PrecreateRequest ==
  /\ now <= MaxOps
  /\ \E transaction_id \in DOMAIN transactions, payment_amount \in {<<0>>, <<1>>},
        branch_id \in BranchIds :
        CreatePayment(transaction_id, payment_amount, "Cash", branch_id)

\* createOrder (no_released left to its default) and applyPayment only
LedgerNext ==
  \/ OrderRequest
  \/ FailingOrderRequest
  \/ PaymentRequest
  \/ FailingPaymentRequest

LedgerSpec == Init /\ [][LedgerNext]_vars

Next ==
  \/ OrderRequest
  \/ FailingOrderRequest
  \/ PaymentRequest
  \/ FailingPaymentRequest
  \/ ReleasedOrderRequest
  \/ PrecreateRequest

Spec == Init /\ [][Next]_vars

\* ------------------------------------------------- concurrent requests
\* Requests are handled concurrently.  A request reads the store when it
\* begins (the snapshot of its transaction, and the scans of the identifier
\* generators) and writes when it finishes; the requests that run to the end
\* in between are the ones it races with.
RaceOrders ==
  {BaseOrder, [BaseOrder EXCEPT !.cust_name = "Ben"],
   [BaseOrder EXCEPT !.amount_paid = <<0>>]}

RaceBodies ==
  {PlainBody, [PlainBody EXCEPT !.dueNow = <<0>>, !.payment_status = "PAID"]}
  \cup {[PlainBody EXCEPT !.dueNow = <<0>>, !.markPickedUp = TRUE, !.lineItemId = li] :
          li \in DOMAIN lineItems}

RaceOrderRequest ==
  /\ now <= MaxOps
  /\ \E data \in RaceOrders : CreateOrder(data, NoFail)

RacePaymentRequest ==
  /\ now <= MaxOps
  /\ \E transaction_id \in DOMAIN transactions, body \in RaceBodies :
        ApplyPayment(transaction_id, body, "none")

BeginOrder ==
  /\ now <= MaxOps
  /\ ~Begun
  /\ \E data \in RaceOrders :
        pending' = [phase |-> "begun", op |-> "createOrder", arg |-> data, snap |-> Store]
  /\ UNCHANGED <<customers, lineItems, transactions, payments, now, last, everFull>>
  /\ UNCHANGED <<ioInstance, emitted>>
  /\ UNCHANGED notifierVars

BeginPayment ==
  /\ now <= MaxOps
  /\ ~Begun
  /\ \E transaction_id \in DOMAIN transactions, body \in RaceBodies :
        pending' = [phase |-> "begun", op |-> "applyPayment",
                    arg |-> [transaction_id |-> transaction_id, body |-> body],
                    snap |-> Store]
  /\ UNCHANGED <<customers, lineItems, transactions, payments, now, last, everFull>>
  /\ UNCHANGED <<ioInstance, emitted>>
  /\ UNCHANGED notifierVars

\* the rest of the pending request, against the store as it is by now
FinishPending ==
  /\ Begun
  /\ LET ctx0 == StartSessionAt(pending.snap, Store)
     IN Install(IF pending.op = "createOrder"
                THEN createServiceRequest(ctx0, pending.arg, NoFail, now)
                ELSE applyPayment(ctx0, pending.arg.transaction_id,
                                  pending.arg.body, "none", now),
                pending.op, pending.arg, "none")
  /\ pending' = [pending EXCEPT !.phase = "finished"]

RaceNext ==
  \/ RaceOrderRequest
  \/ RacePaymentRequest
  \/ BeginOrder
  \/ BeginPayment
  \/ FinishPending

RaceSpec == Init /\ [][RaceNext]_vars

\* ------------------------------------------------- the immediate event
\* registerSocketServer(io)
RegisterSocketServer ==
  /\ ~ioInstance
  /\ ioInstance' = TRUE
  /\ UNCHANGED <<customers, lineItems, transactions, payments, now, last, everFull,
                 pending, emitted>>
  /\ UNCHANGED notifierVars

\* payments and releases, with the broadcaster's emit throwing or the commit
\* failing
EmittingPaymentRequest ==
  \E transaction_id \in DOMAIN transactions, fail \in {"none", "emit", "commit"} :
    \E body \in {PlainBody} \cup Releases :
      ApplyPayment(transaction_id, body, fail)

SocketNext ==
  \/ RegisterSocketServer
  \/ now <= MaxOps /\ \E data \in FailingOrders : CreateOrder(data, NoFail)
  \/ EmittingPaymentRequest

SocketSpec == Init /\ [][SocketNext]_vars

\* ------------------------------------------------- identifier formats
ItemDigits == 3

\* String(n).padStart(width, "0") over the decimal digits of n
RECURSIVE PadStart(_, _)
PadStart(digits, width) ==
  IF Len(digits) >= width THEN digits ELSE PadStart(<<0>> \o digits, width)

\* the parts of the identifier strings, which are joined with "-"
FormatTransactionId(id) == <<id[1], PadStart(DecDigits(id[2]), SeqDigits), id[3]>>

FormatLineItemId(id) ==
  <<id[1], PadStart(DecDigits(id[2]), SeqDigits), PadStart(DecDigits(id[3]), ItemDigits),
    id[4]>>

\* the store after one order (BaseOrder) that was given the sequence number seq
OrderAt(seq) ==
  LET transactionId == <<yearMonth, seq, "VAL">>
      lineItemId == generateLineItemId(transactionId, 0)
  IN [customers |->
        (<<"CUST", 1, 1>> :> [cust_name |-> "Ana", total_services |-> 0,
                              total_expenditure |-> 0]),
      transactions |->
        (transactionId :>
           [payments |-> << <<"PAY", 1, "VAL">> >>, total_amount |-> 2, amount_paid |-> 1,
            branch_id |-> "VAL-B-NCR", payment_status |-> "PARTIAL",
            payment_mode |-> <<"Cash">>, cust_id |-> <<"CUST", 1, 1>>,
            line_item_id |-> <<lineItemId>>, no_pairs |-> 1, no_released |-> 0,
            date_out |-> NullDate]),
      lineItems |->
        (lineItemId :>
           [transaction_id |-> transactionId, priority |-> "Rush",
            services |-> <<[service_id |-> "SVC-1", quantity |-> 1]>>,
            current_location |-> "Branch", branch_id |-> "VAL-B-NCR",
            cust_id |-> <<"CUST", 1, 1>>, current_status |-> "Queued",
            storage_fee |-> 0, latest_update |-> 0]),
      payments |->
        (<<"PAY", 1, "VAL">> :>
           [transaction_id |-> transactionId, ord |-> 1, payment_mode |-> "Cash",
            payment_amount |-> 1])]

\* the sequence numbers already given out when the orders of the run begin
SeedSeqs == {1, 9, 99998, 99999}

IdInit ==
  /\ \E st \in {OrderAt(seq) : seq \in SeedSeqs} :
       /\ customers = st.customers
       /\ lineItems = st.lineItems
       /\ transactions = st.transactions
       /\ payments = st.payments
  /\ now = 1
  /\ last = [op |-> "init", status |-> 0, paymentError |-> FALSE, arg |-> <<>>, fail |-> "none",
            session |-> "none"]
  /\ everFull = {}
  /\ pending = <<>>
  /\ ioInstance = FALSE
  /\ emitted = <<>>
  /\ connected = TRUE
  /\ oplog = [t \in Targets |-> 0]
  /\ LET n == openAllStreams([streams |-> <<>>, activeStreams |-> <<>>,
                              timers |-> EmptyBag], Targets, {})
     IN streams = n.streams /\ activeStreams = n.activeStreams /\ timers = n.timers
  /\ sent = [t \in Targets |-> [before |-> {}, all |-> {}]]
  /\ faults = [stream |-> 0, db |-> 0]
  /\ missed = [t \in Targets |-> {}]

IdNext == OrderRequest

IdSpec == IdInit /\ [][IdNext]_vars

\* ------------------------------------------------ payment identifiers
\* Payments are allocated one after the other, through POST /payments (for
\* the branch on file, and for a branch that is not: branch code ""),
\* createServiceRequest and applyPayment.  The store starts with the first
\* k payments of branch code VAL on file, k at both sides of the scan limit.
MaxPayments == 4

SeedCounts == {0, 1, ScanLimit, ScanLimit + 1}

SeedPayments(k) ==
  [id \in {<<"PAY", i, "VAL">> : i \in 1..k} |->
     [transaction_id |-> MissingTransaction, payment_amount |-> 1,
      payment_mode |-> "Cash", ord |-> id[2]]]

PaymentIdInit ==
  /\ customers = <<>>
  /\ lineItems = <<>>
  /\ transactions = <<>>
  /\ \E k \in SeedCounts : payments = SeedPayments(k)
  /\ now = 1
  /\ last = [op |-> "init", status |-> 0, paymentError |-> FALSE, arg |-> <<>>, fail |-> "none",
            session |-> "none"]
  /\ everFull = {}
  /\ pending = <<>>
  /\ ioInstance = FALSE
  /\ emitted = <<>>
  /\ connected = TRUE
  /\ oplog = [t \in Targets |-> 0]
  /\ LET n == openAllStreams([streams |-> <<>>, activeStreams |-> <<>>,
                              timers |-> EmptyBag], Targets, {})
     IN streams = n.streams /\ activeStreams = n.activeStreams /\ timers = n.timers
  /\ sent = [t \in Targets |-> [before |-> {}, all |-> {}]]
  /\ faults = [stream |-> 0, db |-> 0]
  /\ missed = [t \in Targets |-> {}]

AllocateRequest ==
  /\ now <= MaxPayments
  /\ \E transaction_id \in DOMAIN transactions \cup {MissingTransaction},
        payment_amount \in {<<0>>, <<1>>}, branch_id \in BranchIds \cup {MissingBranch} :
        Install(createPayment(Store, transaction_id, payment_amount, "Cash", branch_id),
                "createPayment", <<transaction_id, payment_amount>>, "none")
  /\ Settle

PaidOrderRequest == CreateOrder(BaseOrder, NoFail)

DueRequest == \E transaction_id \in DOMAIN transactions :
                 ApplyPayment(transaction_id, PlainBody, "none")

PaymentIdNext ==
  \/ AllocateRequest
  \/ PaidOrderRequest
  \/ DueRequest

PaymentIdSpec == PaymentIdInit /\ [][PaymentIdNext]_vars

\* ------------------------------------------------ the line-item routes
\* GET /line-items: the items not yet picked up, of one branch when asked
getAllLineItems(items, branch_id) ==
  LET found == {id \in DOMAIN items :
                  /\ items[id].current_status # "Picked Up"
                  /\ branch_id # Undefined => items[id].branch_id = branch_id}
  IN [status |-> IF found = {} THEN 404 ELSE 200, lineItems |-> items, returned |-> found]

\* PUT /line-items/status; line_item_ids is <<>> when absent, <<ids>> otherwise
updateLineItemStatus(items, line_item_ids, new_status, t) ==
  IF line_item_ids = NoId \/ new_status = Undefined
  THEN [status |-> 400, lineItems |-> items, returned |-> {}]
  ELSE LET matched == line_item_ids[1] \cap DOMAIN items
       IN [status |-> IF matched = {} THEN 404 ELSE 200,
           lineItems |-> [id \in DOMAIN items |->
                            IF id \in matched
                            THEN [items[id] EXCEPT !.current_status = new_status,
                                                   !.latest_update = t]
                            ELSE items[id]],
           returned |-> {}]

\* PUT /line-items/:line_item_id/storage-fee
updateLineItemStorageFee(items, line_item_id, storage_fee, t) ==
  IF storage_fee = NoNum \/ storage_fee[1] < 0
  THEN [status |-> 400, lineItems |-> items, returned |-> {}]
  ELSE IF line_item_id \notin DOMAIN items
  THEN [status |-> 404, lineItems |-> items, returned |-> {}]
  ELSE [status |-> 200,
        lineItems |-> [items EXCEPT ![line_item_id].storage_fee = @ + storage_fee[1],
                                    ![line_item_id].latest_update = t],
        returned |-> {line_item_id}]

\* PUT /line-items/:line_item_id/location
updateLineItemLocation(items, line_item_id, current_location, t) ==
  IF current_location = Undefined \/ current_location \notin {"Hub", "Branch"}
  THEN [status |-> 400, lineItems |-> items, returned |-> {}]
  ELSE IF line_item_id \notin DOMAIN items
  THEN [status |-> 404, lineItems |-> items, returned |-> {}]
  ELSE [status |-> 200,
        lineItems |-> [items EXCEPT ![line_item_id].current_location = current_location,
                                    ![line_item_id].latest_update = t],
        returned |-> {line_item_id}]

\* PUT /line-items/:line_item_id with the fields to assign
updateLineItem(items, line_item_id, updates, t) ==
  IF line_item_id \notin DOMAIN items
  THEN [status |-> 404, lineItems |-> items, returned |-> {}]
  ELSE IF updates.current_location # Undefined
          /\ updates.current_location \notin {"Hub", "Branch"}
  THEN [status |-> 400, lineItems |-> items, returned |-> {}]
  ELSE LET lineItem == items[line_item_id]
           assigned ==
             [lineItem EXCEPT
                !.current_status = IF updates.current_status # Undefined
                                   THEN updates.current_status ELSE @,
                !.latest_update = IF updates.current_status # Undefined THEN t ELSE @,
                !.current_location = IF updates.current_location # Undefined
                                     THEN updates.current_location ELSE @]
       IN [status |-> 200, lineItems |-> [items EXCEPT ![line_item_id] = assigned],
           returned |-> {line_item_id}]

LineItemCall(r, op, arg) ==
  /\ lineItems' = r.lineItems
  /\ now' = now + 1
  /\ last' = [op |-> op, status |-> r.status, paymentError |-> FALSE,
              arg |-> [request |-> arg, returned |-> r.returned], fail |-> "none",
              session |-> "none"]
  /\ emitted' = <<>>
  /\ Settle
  /\ UNCHANGED <<customers, transactions, payments, everFull, ioInstance>>
  /\ UNCHANGED notifierVars

Statuses == {Undefined, "Queued", "Ready for Pickup", "Picked Up"}
Locations == {Undefined, "Hub", "Mars"}
ItemIds == DOMAIN lineItems \cup {MissingLineItem}

QueueNext ==
  \/ now <= MaxOps /\ CreateOrder(BaseOrder, NoFail)
  \/ /\ now <= MaxOps
     /\ \E transaction_id \in DOMAIN transactions, body \in Releases :
          ApplyPayment(transaction_id, body, "none")
  \/ /\ now <= MaxOps
     /\ \E branch_id \in {Undefined, BaseOrder.branch_id, "NOPE"} :
          LineItemCall(getAllLineItems(lineItems, branch_id), "getAllLineItems", branch_id)
  \/ /\ now <= MaxOps
     /\ \E ids \in {NoId} \cup {<<some>> : some \in SUBSET ItemIds}, new_status \in Statuses :
          LineItemCall(updateLineItemStatus(lineItems, ids, new_status, now),
                       "updateLineItemStatus", <<ids, new_status>>)
  \/ /\ now <= MaxOps
     /\ \E id \in ItemIds, storage_fee \in {NoNum, <<-1>>, <<0>>, <<1>>} :
          LineItemCall(updateLineItemStorageFee(lineItems, id, storage_fee, now),
                       "updateLineItemStorageFee", <<id, storage_fee>>)
  \/ /\ now <= MaxOps
     /\ \E id \in ItemIds, current_location \in Locations :
          LineItemCall(updateLineItemLocation(lineItems, id, current_location, now),
                       "updateLineItemLocation", <<id, current_location>>)
  \/ /\ now <= MaxOps
     /\ \E id \in ItemIds, current_status \in Statuses, current_location \in Locations :
          LineItemCall(updateLineItem(lineItems, id,
                                      [current_status |-> current_status,
                                       current_location |-> current_location], now),
                       "updateLineItem", <<id, current_status, current_location>>)

QueueSpec == Init /\ [][QueueNext]_vars

\* ------------------------------------------- the change notifier at work
SetNotifier(n) ==
  LET swept == Sweep(n)
  IN /\ streams' = swept.streams
     /\ activeStreams' = swept.activeStreams
     /\ timers' = swept.timers

Mutations == oplog["line_items"] + oplog["appointments"] + oplog["unavailabilities"]

\* a committed write to a watched collection
Mutate(target) ==
  /\ Mutations < MaxMutations
  /\ oplog' = [oplog EXCEPT ![target] = @ + 1]
  /\ missed' = IF connected THEN missed
                ELSE [missed EXCEPT ![target] = @ \cup {oplog[target] + 1}]
  /\ UNCHANGED <<connected, streams, activeStreams, timers, sent, faults>>
  /\ UNCHANGED ledgerVars

\* stream.on("change"): the next mutation after the stream's position
Change(stream) ==
  /\ connected
  /\ streams[stream].open
  /\ streams[stream].cursor < oplog[streams[stream].target]
  /\ LET st == streams[stream]
         change == st.cursor + 1
     IN /\ streams' = [streams EXCEPT ![stream].cursor = change,
                                       ![stream].currentToken = <<change>>,
                                       ![stream].backoffDelay = BackoffFloor]
        /\ sent' = [sent EXCEPT ![st.target].all = @ \cup {change}]
  /\ UNCHANGED <<connected, oplog, missed, activeStreams, timers, faults>>
  /\ UNCHANGED ledgerVars

\* stream.on("error"): the handler runs, the driver closes the stream
StreamError(stream, bound) ==
  /\ faults.stream < bound
  /\ streams[stream].open
  /\ LET st == streams[stream]
     IN /\ SetNotifier(CloseStream(scheduleRestart(Notifier, stream), stream))
        /\ sent' = [sent EXCEPT ![st.target].before = sent[st.target].all]
  /\ faults' = [faults EXCEPT !.stream = @ + 1]
  /\ UNCHANGED <<connected, oplog, missed>>
  /\ UNCHANGED ledgerVars

\* the server ends the stream; its 'close' event is raised
UnexpectedClose(stream, bound) ==
  /\ faults.stream < bound
  /\ streams[stream].open
  /\ SetNotifier(CloseStream(Notifier, stream))
  /\ sent' = [sent EXCEPT ![streams[stream].target].before
                            = sent[streams[stream].target].all]
  /\ faults' = [faults EXCEPT !.stream = @ + 1]
  /\ UNCHANGED <<connected, oplog, missed>>
  /\ UNCHANGED ledgerVars

\* stream.on("close")
CloseEvent(stream) ==
  /\ streams[stream].closeEvent
  /\ SetNotifier(scheduleRestart([Notifier EXCEPT !.streams[stream].closeEvent = FALSE],
                                 stream))
  /\ UNCHANGED <<connected, oplog, missed, sent, faults>>
  /\ UNCHANGED ledgerVars

\* a restart timer fires: watchTarget(target, token, nextDelay)
TimerFires(timer, throws, bound) ==
  /\ BagIn(timer, timers)
  /\ throws => faults.stream < bound
  /\ SetNotifier(watchTarget([Notifier EXCEPT !.timers = @ (-) SetToBag({timer})],
                             timer.target, timer.token, timer.delay, throws))
  /\ faults' = [faults EXCEPT !.stream = IF throws THEN @ + 1 ELSE @]
  /\ UNCHANGED <<connected, oplog, missed, sent>>
  /\ UNCHANGED ledgerVars

\* db.on("disconnected")
Disconnected ==
  /\ faults.db < MaxDisconnects
  /\ connected
  /\ connected' = FALSE
  /\ LET closeAll == [Notifier EXCEPT !.streams =
                        [k \in DOMAIN streams |->
                           IF InCharge(Notifier, k) /\ streams[k].open
                           THEN [streams[k] EXCEPT !.open = FALSE, !.closeEvent = TRUE]
                           ELSE streams[k]]]
     IN SetNotifier([closeAll EXCEPT !.activeStreams = <<>>])
  /\ faults' = [faults EXCEPT !.db = @ + 1]
  /\ UNCHANGED <<oplog, missed, sent>>
  /\ UNCHANGED ledgerVars

\* db.on("reconnected")
Reconnected(throws, bound) ==
  /\ ~connected
  /\ faults.stream + Cardinality(throws) <= bound
  /\ connected' = TRUE
  /\ SetNotifier(openAllStreams(Notifier, Targets, throws))
  /\ faults' = [faults EXCEPT !.stream = @ + Cardinality(throws)]
  /\ UNCHANGED <<oplog, missed, sent>>
  /\ UNCHANGED ledgerVars

Throwing == {{}} \cup {{t} : t \in Targets}

RestartTimer == \E timer \in BagToSet(timers), throws \in BOOLEAN :
                   TimerFires(timer, throws, MaxFaults)

CloseHandler == \E stream \in DOMAIN streams : CloseEvent(stream)

\* the collections that are written to and whose streams fail one by one;
\* a disconnection and a reconnection concern every collection
Disturbed == {"line_items"}

StreamsOf(targets) == {k \in DOMAIN streams : streams[k].target \in targets}

NotifierNext ==
  \/ \E target \in Disturbed : Mutate(target)
  \/ \E stream \in DOMAIN streams : Change(stream)
  \/ \E stream \in StreamsOf(Disturbed) : StreamError(stream, MaxFaults)
  \/ \E stream \in StreamsOf(Disturbed) : UnexpectedClose(stream, MaxFaults)
  \/ CloseHandler
  \/ RestartTimer
  \/ Disconnected
  \/ \E throws \in Throwing : Reconnected(throws, MaxFaults)

NotifierSpec == Init /\ [][NotifierNext]_vars

\* one collection whose stream fails again and again
BackoffNext ==
  \/ Mutate("line_items")
  \/ \E stream \in DOMAIN streams : Change(stream)
  \/ \E stream \in StreamsOf(Disturbed) : StreamError(stream, MaxFailures)
  \/ \E stream \in StreamsOf(Disturbed) : UnexpectedClose(stream, MaxFailures)
  \/ CloseHandler
  \/ \E timer \in BagToSet(timers), throws \in BOOLEAN :
        TimerFires(timer, throws, MaxFailures)

BackoffSpec == Init /\ [][BackoffNext]_vars

\* failures, timers and the connection alone, without writes to deliver
RecoveryNext ==
  \/ \E stream \in StreamsOf(Disturbed) : StreamError(stream, MaxFaults)
  \/ \E stream \in StreamsOf(Disturbed) : UnexpectedClose(stream, MaxFaults)
  \/ CloseHandler
  \/ RestartTimer
  \/ Disconnected
  \/ \E throws \in Throwing : Reconnected(throws, MaxFaults)

\* timers fire and raised events reach their handlers
NotifierLiveSpec ==
  Init /\ [][RecoveryNext]_vars /\ WF_vars(RestartTimer) /\ WF_vars(CloseHandler)

\* =============================================================== claims
Applied == last.op = "applyPayment"
Ordered == last.op = "createOrder"
PaidTransaction == last.arg.transaction_id

RECURSIVE SumAmounts(_, _)
SumAmounts(ps, ids) ==
  IF ids = {} THEN 0
  ELSE LET id == CHOOSE x \in ids : TRUE
       IN ps[id].payment_amount + SumAmounts(ps, ids \ {id})

PaymentsOf(transaction_id) ==
  {id \in DOMAIN payments : payments[id].transaction_id = transaction_id}

\* C1: every transaction has 0 <= amount_paid <= total_amount, after any
\* sequence of createOrder and applyPayment calls and for any dueNow.
C1_AmountPaidInRange ==
  \A id \in DOMAIN transactions :
    /\ 0 <= transactions[id].amount_paid
    /\ transactions[id].amount_paid <= transactions[id].total_amount

\* the records a createOrder call must leave behind, all of them
OrderComplete ==
  \E id \in DOMAIN transactions' \ DOMAIN transactions :
    LET tx == transactions'[id]
        data == last'.arg
        items == {tx.line_item_id[k] : k \in DOMAIN tx.line_item_id}
        newPayments == DOMAIN payments' \ DOMAIN payments
    IN /\ DOMAIN transactions' = DOMAIN transactions \cup {id}
       /\ tx.cust_id \in DOMAIN customers'
       /\ customers'[tx.cust_id].cust_name = data.cust_name
       /\ DOMAIN customers' \ DOMAIN customers \subseteq {tx.cust_id}
       /\ DOMAIN lineItems' \ DOMAIN lineItems = items
       /\ Cardinality(items) = Len(data.lineItems)
       /\ \A li \in items : lineItems'[li].transaction_id = id
       /\ IF data.amount_paid[1] > 0
          THEN /\ Cardinality(newPayments) = 1
               /\ \A pid \in newPayments : /\ payments'[pid].transaction_id = id
                                           /\ tx.payments = <<pid>>
          ELSE newPayments = {}

\* C2: createOrder is atomic: after a call, wherever a storage write failed,
\* either the customer, all line items, the transaction and the optional
\* payment exist (and the call succeeded), or the store is as before the call.
C2_CreateOrderAtomic ==
  [][Ordered' => \/ last'.status = 201 /\ OrderComplete
                 \/ last'.status # 201 /\ Store' = Store]_vars

\* C2 witness: a call that had written the customer, the line items and the
\* payment when the write of the transaction failed.
C2_Witness ==
  /\ Ordered /\ last.status = 500 /\ last.fail = "transaction"
  /\ Len(last.arg.lineItems) = 2

C4_LedgerReconciles ==
  \A id \in DOMAIN transactions :
    transactions[id].amount_paid = SumAmounts(payments, PaymentsOf(id))

\* C5: no_released never exceeds no_pairs.
C5_ReleasedWithinPairs ==
  \A id \in DOMAIN transactions : transactions[id].no_released <= transactions[id].no_pairs

\* C6: date_out is non-null exactly for the transactions whose no_released has
\* equalled no_pairs at some point of their history.
C6_DateOutIffEverFull ==
  \A id \in DOMAIN transactions : (transactions[id].date_out # NullDate) <=> (id \in everFull)

\* C7: no applyPayment call leaves amount_paid of a transaction lower than it
\* was before the call.
C7_AmountPaidMonotonic ==
  [][Applied' =>
       \A id \in DOMAIN transactions :
         id \in DOMAIN transactions'
         /\ transactions'[id].amount_paid >= transactions[id].amount_paid]_vars

\* C8: every id in a transaction's payments list is the payment_id of an
\* existing Payment record.
C8_PaymentsExist ==
  \A id \in DOMAIN transactions :
    \A k \in DOMAIN transactions[id].payments :
      transactions[id].payments[k] \in DOMAIN payments

\* C8 witness: a payment applied with the provided_payment_id of a Payment
\* record of the transaction, now the second entry of its payments list.
C8_Witness ==
  /\ Applied /\ last.status = 200
  /\ last.arg.body.provided_payment_id \in PaymentsOf(PaidTransaction)
  /\ Len(transactions[PaidTransaction].payments) = 2
  /\ transactions[PaidTransaction].payments[2] = last.arg.body.provided_payment_id

\* what C9 calls an invalid order, spelled out on the request
OrderInvalid(data) ==
  \/ data.payment_status \notin {"NP", "PARTIAL", "PAID"}
  \/ data.payment_mode \notin {"Cash", "GCash", "Bank", "Other"}
  \/ data.lineItems = <<>>
  \/ \E i \in DOMAIN data.lineItems :
       LET item == data.lineItems[i] IN
       \/ item.priority \notin {"Rush", "Normal"}
       \/ item.current_location \notin {Undefined, "Hub", "Branch"}
       \/ item.services = <<>>
       \/ \E k \in DOMAIN item.services : item.services[k].service_id \notin Services

\* C9: a createOrder whose enum field is outside its set, whose line-item list
\* is empty, with a line item without service line or with a service_id the
\* catalog does not know, returns an error and persists no record.
C9_ValidationFailsClosed ==
  [][Ordered' /\ OrderInvalid(last'.arg) =>
       last'.status >= 400 /\ Store' = Store]_vars

\* C9 witness: an order refused for a service_id that is not in the catalog,
\* its first line item being valid.
C9_Witness ==
  /\ Ordered /\ last.status = 400
  /\ Len(last.arg.lineItems) = 2
  /\ last.arg.lineItems[2].services # <<>>
  /\ last.arg.lineItems[2].services[1].service_id \notin Services

\* C10: a successful applyPayment on a transaction with prior amount_paid p and
\* total_amount t leaves amount_paid = min(t, p + dueNow).
C10_ClampedSum ==
  [][Applied' /\ last'.status = 200 =>
       LET id == last'.arg.transaction_id
       IN transactions'[id].amount_paid
            = Min2(transactions[id].total_amount,
                   transactions[id].amount_paid + last'.arg.body.dueNow[1])]_vars

\* C10 witness: an overpayment: dueNow above the total, amount_paid at the
\* total, the whole dueNow on the Payment record only.
C10_Witness ==
  /\ Applied /\ last.status = 200
  /\ last.arg.body.dueNow[1] > transactions[PaidTransaction].total_amount
  /\ transactions[PaidTransaction].amount_paid = transactions[PaidTransaction].total_amount
  /\ \E pid \in PaymentsOf(PaidTransaction) :
       payments[pid].payment_amount = last.arg.body.dueNow[1]

\* ------------------------------------------------ claims on the races
\* the identifiers a request allocates from the store it has read
AllocatedIds(snap, op, arg) ==
  IF op = "createOrder"
  THEN LET branch == Branches[arg.branch_id]
           transactionId == generateTransactionId(snap, branch.branch_code)
       IN {<<"transactions", transactionId>>}
          \cup {<<"lineItems", generateLineItemId(transactionId, i - 1)>> :
                  i \in DOMAIN arg.lineItems}
          \cup (IF \E id \in DOMAIN snap.customers :
                       snap.customers[id].cust_name = arg.cust_name
                THEN {}
                ELSE {<<"customers", generateCustomerId(snap, branch.branch_number)>>})
          \cup (IF arg.amount_paid[1] > 0
                THEN {<<"payments", generatePaymentId(snap, branch.branch_code)>>}
                ELSE {})
  ELSE IF arg.body.dueNow[1] > 0 /\ arg.body.provided_payment_id = NoId
       THEN {<<"payments",
               generatePaymentId(snap,
                 Branches[snap.transactions[arg.transaction_id].branch_id].branch_code)>>}
       ELSE {}

\* one of them was persisted by another request in the meantime
Collided(p, st) ==
  \E a \in AllocatedIds(p.snap, p.op, p.arg) :
    a[2] \in DOMAIN st[a[1]] /\ a[2] \notin DOMAIN p.snap[a[1]]

\* the record persisted under an identifier stays the record of its request
RecordsKept ==
  /\ \A id \in DOMAIN payments :
       id \in DOMAIN payments' /\ payments'[id] = payments[id]
  /\ \A id \in DOMAIN transactions :
       /\ id \in DOMAIN transactions'
       /\ transactions'[id].cust_id = transactions[id].cust_id
       /\ transactions'[id].line_item_id = transactions[id].line_item_id
  /\ \A id \in DOMAIN lineItems :
       /\ id \in DOMAIN lineItems'
       /\ lineItems'[id].transaction_id = lineItems[id].transaction_id
  /\ \A id \in DOMAIN customers :
       /\ id \in DOMAIN customers'
       /\ customers'[id].cust_name = customers[id].cust_name

SamePriorRead(p, st) ==
  /\ p.op = "applyPayment"
  /\ st.transactions[p.arg.transaction_id] # p.snap.transactions[p.arg.transaction_id]

Broadcasts(stream) ==
  /\ stream \in DOMAIN streams'
  /\ streams'[stream].cursor = streams[stream].cursor + 1

\* the step runs scheduleRestart for the stream in charge
Restarts(stream) ==
  /\ InCharge(Notifier, stream)
  /\ streams[stream].target \notin DOMAIN activeStreams'
  /\ connected' = connected
  /\ BagCardinality(timers') > BagCardinality(timers)

\* the step is the restart timer opening a stream
Reopens(timer) ==
  /\ BagIn(timer, timers)
  /\ timers' = timers (-) SetToBag({timer})

ResumesAfter(timer) ==
  /\ timer.target \in DOMAIN activeStreams'
  /\ LET st == streams'[activeStreams'[timer.target]]
     IN /\ st.open
        /\ st.currentToken = timer.token
        /\ st.cursor = IF timer.token = NoToken THEN oplog[timer.target]
                       ELSE timer.token[1]

\* C13: after an error or an unexpected close the timer carries the token of
\* the last change the stream broadcast (the one it was opened with when it
\* broadcast none), the reopened stream resumes after it, and no change that
\* was broadcast before the failure is broadcast again.
C13_ResumeWithoutRepeat ==
  [][/\ \A stream \in DOMAIN streams :
          Restarts(stream) =>
            \E timer \in BagToSet(timers') :
              /\ timer.target = streams[stream].target
              /\ timer.token = streams[stream].currentToken
              /\ timers' = timers (+) SetToBag({timer})
     /\ \A timer \in BagToSet(timers) : Reopens(timer) => ResumesAfter(timer)
     /\ \A stream \in DOMAIN streams :
          Broadcasts(stream) =>
            streams'[stream].cursor \notin sent[streams[stream].target].before]_vars

\* the same without the last part: what the restart chain of one stream does
C13_TokenCarried ==
  [][/\ \A stream \in DOMAIN streams :
          Restarts(stream) =>
            \E timer \in BagToSet(timers') :
              /\ timer.target = streams[stream].target
              /\ timer.token = streams[stream].currentToken
              /\ timers' = timers (+) SetToBag({timer})
     /\ \A timer \in BagToSet(timers) : Reopens(timer) => ResumesAfter(timer)]_vars

Active(target) ==
  /\ target \in DOMAIN activeStreams
  /\ streams[activeStreams[target]].open

AllActive == \A target \in Targets : Active(target)

\* C14: whatever errors, closes, timers and disconnections came before, while
\* the datastore is connected every watched collection gets a stream in
\* charge again (unless the datastore disconnects first).
C14_EveryCollectionWatchedAgain == connected ~> (AllActive \/ ~connected)

\* all three collections watched after two stream failures, a disconnection
\* and the reconnection
C14_Witness ==
  /\ faults.stream >= 2
  /\ faults.db >= 1
  /\ connected
  /\ AllActive
  /\ timers = EmptyBag

NextDelay(lastBackoff) == Min2(lastBackoff * 2, BackoffCap)

\* the step is a timer whose watch threw
Rearms(timer) ==
  /\ BagIn(timer, timers)
  /\ BagCardinality(timers') = BagCardinality(timers)
  /\ timers' # timers

\* C15: a delivered change puts the stream's backoff back to the floor; a
\* failed stream is reopened after min(backoff * 2, cap) and the reopened
\* stream starts from that delay, so failures in a row double the wait; no
\* wait is longer than the cap.
C15_Backoff ==
  [][/\ \A stream \in DOMAIN streams :
          Broadcasts(stream) => streams'[stream].backoffDelay = BackoffFloor
     /\ \A stream \in DOMAIN streams :
          Restarts(stream) =>
            \E timer \in BagToSet(timers') :
              /\ timer.delay = NextDelay(streams[stream].backoffDelay)
              /\ timers' = timers (+) SetToBag({timer})
     /\ \A timer \in BagToSet(timers) :
          /\ Reopens(timer) =>
                streams'[activeStreams'[timer.target]].backoffDelay = timer.delay
          /\ Rearms(timer) =>
                \E later \in BagToSet(timers') : later.delay = NextDelay(timer.delay)
     /\ \A timer \in BagToSet(timers') :
          timer.delay >= 2 * BackoffFloor /\ timer.delay <= BackoffCap]_vars

\* the sixth failure in a row: the wait stays at the cap
C15_Witness ==
  /\ faults.stream >= 6
  /\ oplog["line_items"] = 0
  /\ \E timer \in BagToSet(timers) : timer.delay = BackoffCap

\* --- the immediate event of applyPayment
\* the step is an applyPayment that committed the release of a line item
ReleaseCommitted ==
  /\ now' # now
  /\ last'.op = "applyPayment"
  /\ last'.status = 200
  /\ last'.arg.body.markPickedUp
  /\ last'.arg.body.lineItemId # NoId

ExpectedEvent ==
  [event |-> "lineItemRowUpdate",
   lineItem |-> lineItems'[last'.arg.body.lineItemId],
   transaction_id |-> last'.arg.transaction_id,
   remaining_balance |->
     Max2(transactions'[last'.arg.transaction_id].total_amount
            - transactions'[last'.arg.transaction_id].amount_paid, 0),
   isPickedUp |-> TRUE, source |-> "applyPayment"]

\* C16: every committed applyPayment that released a line item sends the
\* connected clients a lineItemRowUpdate with the updated line item and the
\* remaining balance max(total_amount - amount_paid, 0).
C16_ReleaseIsBroadcast ==
  [][ReleaseCommitted => emitted' = <<ExpectedEvent>>]_vars

\* the same, for a registered broadcaster whose emit does not throw
C16_BroadcastWhenRegistered ==
  [][ReleaseCommitted /\ ioInstance /\ last'.fail # "emit"
       => emitted' = <<ExpectedEvent>>]_vars

PickedUp(items) == {id \in DOMAIN items : items[id].current_status = "Picked Up"}

\* C18: a line item that is "Picked Up" keeps that status through every
\* request, and the listing of the active queue does not return it.
C18_PickedUpIsFinal ==
  [][\A id \in PickedUp(lineItems) :
       /\ id \in PickedUp(lineItems')
       /\ id \notin getAllLineItems(lineItems', Undefined).returned]_vars

\* what holds: the listing returns no item that is "Picked Up" when listed
C18_ListingSkipsPickedUp ==
  [][last'.op = "getAllLineItems" /\ now' # now
       => last'.arg.returned \cap PickedUp(lineItems') = {}]_vars

\* applyPayment, the location update and the storage-fee update leave a
\* "Picked Up" item picked up
C18_OtherRoutesKeepStatus ==
  [][last'.op \in {"applyPayment", "updateLineItemLocation", "updateLineItemStorageFee"}
       => PickedUp(lineItems) \subseteq PickedUp(lineItems')]_vars

\* --- customer totals
\* C19: a committed applyPayment that marks a line item picked up adds 1 to
\* total_services and the transaction's whole total_amount to
\* total_expenditure of the transaction's customer; any other applyPayment
\* leaves the customers as they were.
C19_PickupCountsOnce ==
  [][last'.op = "applyPayment" /\ now' # now =>
       IF /\ last'.status = 200
          /\ last'.arg.body.markPickedUp
          /\ last'.arg.body.lineItemId # NoId
       THEN LET transaction == transactions[last'.arg.transaction_id]
            IN customers' =
                 [customers EXCEPT
                    ![transaction.cust_id].total_services = @ + 1,
                    ![transaction.cust_id].total_expenditure = @ + transaction.total_amount]
       ELSE customers' = customers]_vars

\* two line items of one transaction released: the total is counted twice
C19_Witness ==
  /\ last.op = "applyPayment"
  /\ last.status = 200
  /\ last.arg.body.markPickedUp
  /\ last.arg.body.lineItemId # NoId
  /\ LET transaction == transactions[last.arg.transaction_id]
     IN /\ transaction.total_amount > 0
        /\ customers[transaction.cust_id].total_services = 2
        /\ customers[transaction.cust_id].total_expenditure = 2 * transaction.total_amount

\* --- identifier formats
Scope(ids, branch_code) == {k \in ids : k[1] = yearMonth /\ k[3] = branch_code}

\* the transaction created by the step
Created == CHOOSE k \in DOMAIN transactions' : k \notin DOMAIN transactions

FormatsAsClaimed ==
  LET scope == Scope(DOMAIN transactions, Created[3])
      previous == IF scope = {} THEN 0 ELSE Max({k[2] : k \in scope})
      items == transactions'[Created].line_item_id
  IN /\ Created[1] = yearMonth
     /\ Created[2] = previous + 1
     /\ Len(FormatTransactionId(Created)[2]) = 5
     /\ \A i \in DOMAIN items :
          /\ items[i] = <<Created[1], Created[2], i, Created[3]>>
          /\ items[i] \in DOMAIN lineItems'
          /\ FormatLineItemId(items[i])[2] = FormatTransactionId(Created)[2]
          /\ Len(FormatLineItemId(items[i])[3]) = 3

\* C20: a createOrder gets the sequence after the highest one of its
\* (year-month, branch code) scope, 00001 when there is none, written with
\* five digits in <YYYY>-<MM>-<seq>-<branch_code>; its i-th line item gets
\* <YYYY>-<MM>-<seq>-<i in three digits>-<branch_code>.
C20_IdFormats ==
  [][last'.op = "createOrder" /\ now' # now =>
       /\ last'.arg = BaseOrder /\ last'.fail = "none" => last'.status = 201
       /\ last'.status = 201 => FormatsAsClaimed]_vars

C22_TransactionAsCreated ==
  [][last'.op = "createOrder" /\ last'.status = 201 /\ now' # now =>
       LET data == last'.arg
           transaction == transactions'[Created]
           paid == DOMAIN payments' \ DOMAIN payments
       IN /\ transaction.no_pairs = Len(data.lineItems)
          /\ transaction.no_released = 0
          /\ IF data.amount_paid # NoNum /\ data.amount_paid[1] > 0
             THEN /\ Cardinality(paid) = 1
                  /\ \A p \in paid : /\ transaction.payments = <<p>>
                                     /\ payments'[p].payment_amount = data.amount_paid[1]
                                     /\ payments'[p].transaction_id = Created
             ELSE paid = {} /\ transaction.payments = <<>>]_vars

\* --- unknown branch
\* C23: a createOrder whose branch id is not on file answers 404 and leaves
\* every collection as it was.
C23_UnknownBranchNotFound ==
  [][last'.op = "createOrder" /\ now' # now /\ last'.arg.branch_id \notin DOMAIN Branches =>
       /\ last'.status = 404
       /\ UNCHANGED <<customers, lineItems, transactions, payments>>]_vars

\* --- latest_update
\* C24: a step that changes the current_status or the current_location of a
\* line item sets its latest_update to the time of the step, the change to
\* "Picked Up" made by applyPayment included.
C24_LatestUpdateRefreshed ==
  [][\A id \in DOMAIN lineItems \cap DOMAIN lineItems' :
       \/ lineItems'[id].current_status # lineItems[id].current_status
       \/ lineItems'[id].current_location # lineItems[id].current_location
       => lineItems'[id].latest_update = now]_vars

\* --- disconnection and reconnection
Disconnects == connected /\ ~connected'
Reconnects == ~connected /\ connected'

\* the step runs the 'close' handler of the stream
HandlesClose(stream) ==
  /\ streams[stream].closeEvent
  /\ stream \in DOMAIN streams' => ~streams'[stream].closeEvent

\* the collection has a stream in charge that starts from now
OpenedFresh(target) ==
  /\ target \in DOMAIN activeStreams'
  /\ LET st == streams'[activeStreams'[target]]
     IN st.open /\ st.currentToken = NoToken /\ st.cursor = oplog[target]

\* what the two handlers do by themselves
C25_Handlers ==
  [][/\ Disconnects => /\ \A stream \in DOMAIN streams' : ~streams'[stream].open
                       /\ activeStreams' = <<>>
                       /\ timers' = timers
     /\ \A stream \in DOMAIN streams :
          HandlesClose(stream) /\ ~InCharge(Notifier, stream) => timers' = timers
     /\ Reconnects =>
          \A target \in Targets :
            \/ OpenedFresh(target)
            \/ \E timer \in BagToSet(timers') :
                 /\ timer.target = target /\ timer.token = NoToken
                 /\ CopiesIn(timer, timers') > CopiesIn(timer, timers)]_vars

\* C25: a disconnection closes every open stream and the close events of
\* these streams schedule no restart; a reconnection opens a stream for every
\* watched collection without a resume position; and no mutation made while
\* the datastore was disconnected is broadcast.
C25_NothingReplayed ==
  [][/\ Disconnects => /\ \A stream \in DOMAIN streams' : ~streams'[stream].open
                       /\ activeStreams' = <<>>
                       /\ timers' = timers
     /\ \A stream \in DOMAIN streams :
          HandlesClose(stream) /\ ~InCharge(Notifier, stream) => timers' = timers
     /\ Reconnects =>
          \A target \in Targets :
            \/ OpenedFresh(target)
            \/ \E timer \in BagToSet(timers') :
                 /\ timer.target = target /\ timer.token = NoToken
                 /\ CopiesIn(timer, timers') > CopiesIn(timer, timers)
     /\ \A stream \in DOMAIN streams :
          Broadcasts(stream) =>
            streams'[stream].cursor \notin missed[streams[stream].target]]_vars

\* --- one stream per collection
OpenStreams(target) == {k \in DOMAIN streams : streams[k].target = target /\ streams[k].open}

\* C26: at any time at most one open stream watches a collection, and no
\* mutation is broadcast twice, whatever the order of stream errors, restart
\* timers, disconnection and reconnection.
C26_OneStreamPerCollection ==
  /\ [](\A target \in Targets : Cardinality(OpenStreams(target)) <= 1)
  /\ [][\A stream \in DOMAIN streams :
          Broadcasts(stream) =>
            streams'[stream].cursor \notin sent[streams[stream].target].all]_vars

\* --- one restart for one failure
\* the step is the 'error' handler of the stream in charge of its collection
FailsWithError(stream) ==
  /\ InCharge(Notifier, stream)
  /\ streams[stream].open
  /\ connected' = connected
  /\ faults'.stream = faults.stream + 1
  /\ stream \in DOMAIN streams' /\ ~streams'[stream].open
  /\ streams[stream].target \notin DOMAIN activeStreams'

\* the stream is closed by the step
ClosedBy(stream) ==
  /\ streams[stream].open
  /\ stream \in DOMAIN streams' /\ ~streams'[stream].open

NotifierAfter == [streams |-> streams', activeStreams |-> activeStreams', timers |-> timers']

\* C27: the error handler of a failed stream, the one in charge of its
\* collection, arms exactly one restart timer and the close event that
\* follows arms none; a stream closed by the disconnected handler, or by
\* openAllStreams when it replaces it, is out of the map, stays out of it,
\* and its close event arms no timer.
C27_OneRestartPerFailure ==
  [][/\ \A stream \in DOMAIN streams :
          /\ FailsWithError(stream) =>
               \E timer \in BagToSet(timers') :
                 /\ timer.target = streams[stream].target
                 /\ timers' = timers (+) SetToBag({timer})
          /\ HandlesClose(stream) /\ ~InCharge(Notifier, stream) => timers' = timers
          /\ /\ streams[stream].closeEvent
             /\ ~InCharge(Notifier, stream)
             /\ stream \in DOMAIN streams'
             => ~InCharge(NotifierAfter, stream)
     /\ Disconnects \/ Reconnects =>
          \A stream \in DOMAIN streams :
            ClosedBy(stream) => /\ streams'[stream].closeEvent
                                /\ ~InCharge(NotifierAfter, stream)]_vars

\* a stream has failed with an error: its restart timer is armed and its
\* close event has not been handled yet
C27_Witness ==
  /\ faults.db = 0
  /\ \E stream \in DOMAIN streams :
       /\ streams[stream].closeEvent
       /\ ~InCharge(Notifier, stream)
       /\ \E timer \in BagToSet(timers) :
            /\ timer.target = streams[stream].target
            /\ timers = SetToBag({timer})

\* a stream replaced by openAllStreams at the reconnection: the timer that
\* fired while the datastore was disconnected had opened it
C27_Replaced ==
  /\ connected
  /\ faults.db = 1
  /\ timers = EmptyBag
  /\ \E stream \in DOMAIN streams :
       /\ streams[stream].closeEvent
       /\ streams[stream].currentToken # NoToken
       /\ ~InCharge(Notifier, stream)

\* --- release of a line item
\* C28: an applyPayment sets to "Picked Up" only line items of the
\* transaction it is called for.
C28_ReleaseWithinTransaction ==
  [][last'.op = "applyPayment" /\ now' # now =>
       \A id \in DOMAIN lineItems :
         /\ lineItems'[id].current_status = "Picked Up"
         /\ lineItems[id].current_status # "Picked Up"
         => lineItems[id].transaction_id = last'.arg.transaction_id]_vars

\* --- released pairs
ReleasedItems(transaction_id) ==
  {id \in DOMAIN lineItems : /\ lineItems[id].transaction_id = transaction_id
                             /\ lineItems[id].current_status = "Picked Up"}

\* C29: after any sequence of createOrder and applyPayment calls, the
\* no_released of every transaction is the number of its line items whose
\* current_status is "Picked Up".
C29_ReleasedCountsPickedUp ==
  \A id \in DOMAIN transactions :
    transactions[id].no_released = Cardinality(ReleasedItems(id))

\* --- storage sessions
\* C30: whatever the exit path, a createOrder or an applyPayment that has
\* answered has ended the storage session it started.
C30_SessionEnded ==
  last.op \in {"createOrder", "applyPayment"} => last.session = "ended"
====
